---- MODULE Spec2Model ----
(***************************************************************************)
(* Signing workflow coordinator of the document-signature backend:         *)
(* signingRequestController (create, getByToken, signByToken, resend,      *)
(* cancel) over the SigningRequest, Signature, User and Document           *)
(* collections.                                                            *)
(***************************************************************************)
EXTENDS Integers, Sequences, FiniteSets, TLC

(* ------------------------------ bounds --------------------------------- *)

\* longest signer list a create call is given
MaxSigners == 2

\* the clock runs from 0 to MaxTime
MaxTime == 2

\* responses with completed = true that are counted
MaxTriggers == 2

(* ------------------------------ values --------------------------------- *)

\* a Date field that holds null
NullDate == -1

\* signedAt, completedAt and reminderSentAt are only ever written with
\* new Date() and never read: they are kept as "null" or "set"
Stamp(t) == "set"

\* emails as typed by callers; "A" is "a" with an upper-case letter
RawEmails == {"a", "A", "b", "c"}

\* emails a create call lists as signers
SignerEmails == {"a", "A", "b"}

\* req.user._id of the authenticated routes
Callers == {"owner", "other"}

\* the one uuid create generates, and a token no request has
Tokens == {"t1"}
AllTokens == Tokens \cup {"unknown"}

\* expiresInDays of a create call; 0 is "not given"
ExpiresInDaysChoices == {0, 1}

SigData == {"d1"}

\* signByToken calls that can be in flight at once
Handlers == {"h1", "h2"}

Idle == [pc |-> "idle"]

Orders == {"sequential", "parallel"}

\* A field value that was never set (value: null).
NullValue == "<null>"

\* The type tags of the SignatureField schema.
FieldTypes == {"signature", "initials", "name", "date", "text", "input",
               "checkbox", "witness", "stamp"}

\* Image payloads: a data URL that decodes as a PNG, and one that does not.
PngOk == "data:image/png;base64,iVBORw0KGgo="
PngBad == "data:image/png;base64,@corrupt@"

\* The callers of the authenticated field routes: the document owner, the
\* user whose email is "a", and a third user.
FieldCallers == {"owner", "a", "other"}

\* The one uploaded document: its id, its stored file name and path.
DocumentId == "doc1"
FileName == "doc.pdf"
FilePath == "uploads/doc.pdf"

\* The pages of the uploaded PDF and the height of each page.
PageCount == 1
PageHeight == 800

\* The bytes of a PDF: the file it was loaded from and what was drawn on it.
Pdf(base, drawn) == [base |-> base, drawn |-> drawn]
OriginalPdf == Pdf(FileName, <<>>)

NoFinalize == [pc |-> "idle"]

\* linkedFieldId: null, where the identifiers of fields are 1, 2, ...
NoLink == 0

\* Lengths on the signing page are counted in 1/120 pixel, so that every
\* quotient of a whole pixel by a zoom factor below is exact.
Px(p) == p * 120

\* SignDocument.tsx, the zoom select: the factors 0.8, 1.0, 1.2, 1.5 and 2.0
\* of its options, in tenths, and the two the owner switches between.
ZoomOptions == {8, 10, 12, 15, 20}
Scales == {12, 20}

\* isDragging null, no pending debounce timer.
NoDrag == 0
NoTimeout == [id |-> NoDrag, x |-> 0, y |-> 0]

\* The signing page after mount: zoom 1.2, nothing dragged, no field loaded.
InitialCanvas ==
  [scale |-> 12, isDragging |-> NoDrag, dragStart |-> [x |-> 0, y |-> 0],
   fields |-> <<>>, dragTimeout |-> NoTimeout]

VARIABLES
  now,               \* Date.now(), in days
  documentStatus,    \* Document.status of the one document
  signingRequests,   \* the SigningRequest collection: token -> document
  issuedTokens,      \* the uuids create has generated
  users,             \* emails that have a User document
  signatures,        \* the Signature collection, in creation order
  response,          \* the last response sent
  completionTriggers,\* number of responses sent with completed = true
  handlers,          \* signByToken handlers suspended at an await
  fields,            \* the SignatureField collection, in creation order
  createdFields,     \* number of SignatureField ids generated so far
  recipients,        \* the DocumentRecipient collection, in creation order
  documentFile,      \* Document.fileName, filePath and signedFilePath
  files,             \* the upload directory: path -> file contents
  finalizer,         \* a finalize handler suspended at an await
  canvas             \* the signing page: zoom, drag and its copy of the fields

vars == <<now, documentStatus, signingRequests, issuedTokens, users,
          signatures, response, completionTriggers, handlers,
          fields, createdFields, recipients, documentFile, files, finalizer,
          canvas>>

\* The state of the field registry and the finalization engine, and the
\* signing page that shows it.
fieldVars == <<fields, createdFields, recipients, documentFile, files, finalizer,
               canvas>>

\* The state of the signing coordinator that the field operations never touch.
requestVars == <<now, signingRequests, issuedTokens, completionTriggers, handlers>>

(* --------------------------- pure helpers ------------------------------ *)

\* SignerInfoSchema.email: lowercase
Lowercase(email) == IF email = "A" THEN "a" ELSE email

\* signers.findIndex(s => s.email === email), 0-based, -1 when absent
FindIndex(signers, email) ==
  IF \E i \in 1..Len(signers) : signers[i].email = email
  THEN (CHOOSE i \in 1..Len(signers) :
          /\ signers[i].email = email
          /\ \A j \in 1..(i - 1) : signers[j].email # email) - 1
  ELSE -1

\* signers.every(s => s.status === 'signed')
AllSigned(signers) == \A i \in 1..Len(signers) : signers[i].status = "signed"

\* SigningRequest.findOne({ token }) finds a document
Found(token) == token \in DOMAIN signingRequests

\* the status code of each AppError the handlers throw, by its message
StatusCode(error) ==
  CASE error = "ok" -> 200
    [] error = "created" -> 201
    [] error = "not found" -> 404
    [] error = "not authorized to sign" -> 403
    [] error = "wait for your turn" -> 403
    [] error = "expired" -> 410
    [] error = "already signed by all" -> 400
    [] error = "cancelled" -> 400
    [] error = "cannot cancel completed" -> 400
    [] error = "already finalized" -> 400
    [] OTHER -> 0

\* what the caller is sent: the handler, the error message ("ok" without one)
\* and its status code, data.completed, and whether sendRejectionEmail was
\* called for the owner
Resp(op, error, completed, notified) ==
  [op |-> op, error |-> error, status |-> StatusCode(error),
   completed |-> completed, ownerNotified |-> notified]

(* ------------------------------ create --------------------------------- *)

\* signers.map((signer, index) => ({...signer, order, status: 'pending'})),
\* stored through SignerInfoSchema
ProcessedSigners(emails, signingOrder) ==
  [i \in 1..Len(emails) |->
     [email |-> Lowercase(emails[i]),
      order |-> IF signingOrder = "sequential" THEN i - 1 ELSE 0,
      status |-> "pending",
      signedAt |-> "null"]]

\* expiresInDays ? new Date(Date.now() + expiresInDays * day) : null
ExpiresAt(expiresInDays, t) ==
  IF expiresInDays # 0 THEN t + expiresInDays ELSE NullDate

NewSigningRequest(emails, signingOrder, expiresInDays, t) ==
  [signers |-> ProcessedSigners(emails, signingOrder),
   signingOrder |-> signingOrder,
   status |-> "pending",
   expiresAt |-> ExpiresAt(expiresInDays, t),
   completedAt |-> "null",
   currentSignerIndex |-> 0,
   reminderSentAt |-> "null"]

SignerLists == UNION {[1..n -> SignerEmails] : n \in 1..MaxSigners}

\* one request is followed from its creation: create runs while a uuid is left
Create(caller, emails, signingOrder, expiresInDays) ==
  /\ issuedTokens # Tokens
  /\ LET token == CHOOSE t \in Tokens : t \notin issuedTokens IN
     IF caller # "owner"
     THEN /\ response' = Resp("create", "not found", FALSE, FALSE)
          /\ UNCHANGED <<documentStatus, signingRequests, issuedTokens>>
     ELSE IF documentStatus = "completed"
     THEN /\ response' = Resp("create", "already finalized", FALSE, FALSE)
          /\ UNCHANGED <<documentStatus, signingRequests, issuedTokens>>
     ELSE /\ signingRequests' =
               [t \in DOMAIN signingRequests \cup {token} |->
                  IF t = token
                  THEN NewSigningRequest(emails, signingOrder, expiresInDays, now)
                  ELSE signingRequests[t]]
          /\ issuedTokens' = issuedTokens \cup {token}
          /\ documentStatus' = "pending"
          /\ response' = Resp("create", "created", FALSE, FALSE)
  /\ UNCHANGED fieldVars
  /\ UNCHANGED <<now, users, signatures, completionTriggers, handlers>>

(* ---------------------------- getByToken ------------------------------- *)

IsExpired(req, t) ==
  \/ req.status = "expired"
  \/ (req.expiresAt # NullDate /\ t > req.expiresAt)

\* signers[currentSignerIndex]?.email === email
IsCurrentSigner(req, email) ==
  /\ req.currentSignerIndex + 1 \in 1..Len(req.signers)
  /\ req.signers[req.currentSignerIndex + 1].email = email

\* GetByTokenError with the completed and cancelled checks moved before the
\* expiry check
GetByTokenErrorStatusFirst(token, email, t) ==
  IF ~Found(token) THEN "not found"
  ELSE LET req == signingRequests[token] IN
    IF req.status = "completed" THEN "already signed by all"
    ELSE IF req.status = "cancelled" THEN "cancelled"
    ELSE IF IsExpired(req, t) THEN "expired"
    ELSE IF /\ req.signingOrder = "sequential"
            /\ email # ""
            /\ ~IsCurrentSigner(req, email)
    THEN "wait for your turn"
    ELSE "ok"

\* the error getByToken throws, "ok" when none; email "" is "no email given"
GetByTokenError(token, email, t) ==
  IF ~Found(token) THEN "not found"
  ELSE LET req == signingRequests[token] IN
    IF IsExpired(req, t) THEN "expired"
    ELSE IF req.status = "completed" THEN "already signed by all"
    ELSE IF req.status = "cancelled" THEN "cancelled"
    ELSE IF /\ req.signingOrder = "sequential"
            /\ email # ""
            /\ ~IsCurrentSigner(req, email)
    THEN "wait for your turn"
    ELSE "ok"

GetByToken(token, email) ==
  /\ response' = Resp("getByToken", GetByTokenError(token, email, now), FALSE, FALSE)
  /\ UNCHANGED fieldVars
  /\ UNCHANGED <<now, documentStatus, signingRequests, issuedTokens, users,
                 signatures, completionTriggers, handlers>>

(* ---------------------------- signByToken ------------------------------ *)

\* SignByTokenError without the sequential turn check
SignByTokenErrorNoTurn(token, email) ==
  IF ~Found(token) THEN "not found"
  ELSE IF FindIndex(signingRequests[token].signers, email) = -1
  THEN "not authorized to sign"
  ELSE "ok"

\* the error thrown by the checks between findOne and the rejection branch
SignByTokenError(token, email) ==
  IF ~Found(token) THEN "not found"
  ELSE LET req == signingRequests[token] IN
    IF FindIndex(req.signers, email) = -1 THEN "not authorized to sign"
    ELSE IF /\ req.signingOrder = "sequential"
            /\ FindIndex(req.signers, email) # req.currentSignerIndex
    THEN "wait for your turn"
    ELSE "ok"

\* RejectSigner that also cancels the request
RejectSignerCancels(req, signerIndex) ==
  [req EXCEPT !.signers[signerIndex + 1].status = "rejected",
              !.status = "cancelled"]

\* signer.status = 'rejected'
RejectSigner(req, signerIndex) ==
  [req EXCEPT !.signers[signerIndex + 1].status = "rejected"]

\* signer.status = 'signed'; signer.signedAt = new Date()
MarkSigned(req, signerIndex, t) ==
  [req EXCEPT !.signers[signerIndex + 1].status = "signed",
              !.signers[signerIndex + 1].signedAt = Stamp(t)]

\* AdvanceIndex that forgets the increment
AdvanceIndexNever(req) == req

\* AdvanceIndex that increments in parallel mode too
AdvanceIndexAlways(req) == [req EXCEPT !.currentSignerIndex = @ + 1]

\* if (signingOrder === 'sequential') currentSignerIndex++
AdvanceIndex(req) ==
  IF req.signingOrder = "sequential"
  THEN [req EXCEPT !.currentSignerIndex = @ + 1]
  ELSE req

\* allSigned ? (status = 'completed', completedAt = new Date()) : status = 'in_progress'
RecomputeStatus(req, t) ==
  IF AllSigned(req.signers)
  THEN [req EXCEPT !.status = "completed", !.completedAt = Stamp(t)]
  ELSE [req EXCEPT !.status = "in_progress"]

\* the in-memory document just before signingRequest.save() on the sign branch
SignSigner(req, signerIndex, t) ==
  RecomputeStatus(AdvanceIndex(MarkSigned(req, signerIndex, t)), t)

\* signingRequest.save(): the paths that differ from the loaded document are
\* $set on the stored one
SaveSigner(stored, loaded, mine) ==
  [email |-> IF mine.email # loaded.email THEN mine.email ELSE stored.email,
   order |-> IF mine.order # loaded.order THEN mine.order ELSE stored.order,
   status |-> IF mine.status # loaded.status THEN mine.status ELSE stored.status,
   signedAt |-> IF mine.signedAt # loaded.signedAt THEN mine.signedAt
                ELSE stored.signedAt]

Save(stored, loaded, mine) ==
  [signers |-> [i \in 1..Len(stored.signers) |->
                  SaveSigner(stored.signers[i], loaded.signers[i], mine.signers[i])],
   signingOrder |-> stored.signingOrder,
   status |-> IF mine.status # loaded.status THEN mine.status ELSE stored.status,
   expiresAt |-> stored.expiresAt,
   completedAt |-> IF mine.completedAt # loaded.completedAt THEN mine.completedAt
                   ELSE stored.completedAt,
   currentSignerIndex |->
     IF mine.currentSignerIndex # loaded.currentSignerIndex
     THEN mine.currentSignerIndex ELSE stored.currentSignerIndex,
   reminderSentAt |->
     IF mine.reminderSentAt # loaded.reminderSentAt
     THEN mine.reminderSentAt ELSE stored.reminderSentAt]

\* Signature.findOne({ document, signer: user._id })
HasSignature(sigs, email) == \E i \in 1..Len(sigs) : sigs[i].signer = email

\* an existing Signature is changed in memory only (no save); a missing one
\* is created
UpsertSignature(sigs, email, data) ==
  IF HasSignature(sigs, email) THEN sigs
  ELSE Append(sigs, [signer |-> email, signatureData |-> data, status |-> "pending"])

CountTrigger(n, completed) == IF completed THEN n + 1 ELSE n

SignByToken(token, email, reject, data) ==
  /\ completionTriggers < MaxTriggers
  /\ LET error == SignByTokenError(token, email) IN
     IF error # "ok"
     THEN /\ response' = Resp("signByToken", error, FALSE, FALSE)
          /\ UNCHANGED <<signingRequests, users, signatures, completionTriggers>>
     ELSE LET req == signingRequests[token]
              signerIndex == FindIndex(req.signers, email) IN
       IF reject
       THEN /\ signingRequests' =
                 [signingRequests EXCEPT
                    ![token] = Save(req, req, RejectSigner(req, signerIndex))]
            /\ response' = Resp("reject", "ok", FALSE, TRUE)
            /\ UNCHANGED <<users, signatures, completionTriggers>>
       ELSE LET mine == SignSigner(req, signerIndex, now)
                completed == AllSigned(mine.signers) IN
            /\ users' = users \cup {email}
            /\ signatures' = UpsertSignature(signatures, email, data)
            /\ signingRequests' =
                 [signingRequests EXCEPT ![token] = Save(req, req, mine)]
            /\ response' = Resp("signByToken", "ok", completed, FALSE)
            /\ completionTriggers' = CountTrigger(completionTriggers, completed)
  /\ UNCHANGED fieldVars
  /\ UNCHANGED <<now, documentStatus, issuedTokens, handlers>>

(* ------------------------- resend and cancel --------------------------- *)

\* SigningRequest.findOne({ _id: id, owner: userId })
FoundByOwner(token, caller) == Found(token) /\ caller = "owner"

Resend(token, caller) ==
  /\ IF ~FoundByOwner(token, caller)
     THEN /\ response' = Resp("resend", "not found", FALSE, FALSE)
          /\ UNCHANGED signingRequests
     ELSE /\ signingRequests' =
               [signingRequests EXCEPT ![token].reminderSentAt = Stamp(now)]
          /\ response' = Resp("resend", "ok", FALSE, FALSE)
  /\ UNCHANGED fieldVars
  /\ UNCHANGED <<now, documentStatus, issuedTokens, users, signatures,
                 completionTriggers, handlers>>

\* CancelError without the completed check
CancelErrorNoCompletedCheck(token, caller) ==
  IF ~FoundByOwner(token, caller) THEN "not found" ELSE "ok"

CancelError(token, caller) ==
  IF ~FoundByOwner(token, caller) THEN "not found"
  ELSE IF signingRequests[token].status = "completed" THEN "cannot cancel completed"
  ELSE "ok"

Cancel(token, caller) ==
  /\ IF CancelError(token, caller) # "ok"
     THEN UNCHANGED signingRequests
     ELSE signingRequests' = [signingRequests EXCEPT ![token].status = "cancelled"]
  /\ response' = Resp("cancel", CancelError(token, caller), FALSE, FALSE)
  /\ UNCHANGED fieldVars
  /\ UNCHANGED <<now, documentStatus, issuedTokens, users, signatures,
                 completionTriggers, handlers>>

(* ------------------------- clock and TTL index ------------------------- *)

Tick ==
  /\ now < MaxTime
  /\ now' = now + 1
  /\ UNCHANGED fieldVars
  /\ UNCHANGED <<documentStatus, signingRequests, issuedTokens, users,
                 signatures, response, completionTriggers, handlers>>

\* SigningRequestSchema.index({ expiresAt: 1 }, { expireAfterSeconds: 0 }):
\* the database removes a request some time after its expiresAt has passed
TTLDelete(token) ==
  /\ Found(token)
  /\ signingRequests[token].expiresAt # NullDate
  /\ now > signingRequests[token].expiresAt
  /\ signingRequests' = [t \in DOMAIN signingRequests \ {token} |-> signingRequests[t]]
  /\ UNCHANGED fieldVars
  /\ UNCHANGED <<now, documentStatus, issuedTokens, users, signatures,
                 response, completionTriggers, handlers>>

(* --------------------------- specification ----------------------------- *)

Init ==
  /\ now = 0
  /\ documentStatus = "draft"
  /\ signingRequests = <<>>
  /\ issuedTokens = {}
  /\ users = {}
  /\ signatures = <<>>
  /\ response = Resp("none", "none", FALSE, FALSE)
  /\ completionTriggers = 0
  /\ handlers = [h \in Handlers |-> Idle]
  /\ fields = <<>>
  /\ createdFields = 0
  /\ recipients = <<>>
  /\ documentFile = [fileName |-> FileName, filePath |-> FilePath,
                     signedFilePath |-> NullValue]
  /\ files = (FilePath :> OriginalPdf)
  /\ finalizer = NoFinalize
  /\ canvas = InitialCanvas

Next ==
  \/ \E caller \in Callers, emails \in SignerLists, o \in Orders,
        d \in ExpiresInDaysChoices : Create(caller, emails, o, d)
  \/ \E token \in AllTokens, email \in RawEmails \cup {""} : GetByToken(token, email)
  \/ \E token \in AllTokens, email \in RawEmails, reject \in BOOLEAN, data \in SigData :
        SignByToken(token, email, reject, data)
  \/ \E token \in AllTokens, caller \in Callers : Resend(token, caller)
  \/ \E token \in AllTokens, caller \in Callers : Cancel(token, caller)
  \/ Tick
  \/ \E token \in Tokens : TTLDelete(token)

Spec == Init /\ [][Next]_vars

(* ------------- signByToken, one step per database operation ------------ *)

\* findOne and the checks that follow it without an await
SignLoad(h, token, email, reject, data) ==
  /\ handlers[h].pc = "idle"
  /\ completionTriggers < MaxTriggers
  /\ LET error == SignByTokenError(token, email) IN
     IF error # "ok"
     THEN /\ response' = Resp("signByToken", error, FALSE, FALSE)
          /\ UNCHANGED handlers
     ELSE /\ handlers' =
               [handlers EXCEPT ![h] =
                  [pc |-> "loaded", token |-> token, email |-> email,
                   reject |-> reject, data |-> data,
                   signerIndex |-> FindIndex(signingRequests[token].signers, email),
                   loaded |-> signingRequests[token]]]
          /\ UNCHANGED response
  /\ UNCHANGED fieldVars
  /\ UNCHANGED <<now, documentStatus, signingRequests, issuedTokens, users,
                 signatures, completionTriggers>>

\* rejection branch: signer.status = 'rejected'; await signingRequest.save()
SignSaveReject(h) ==
  /\ handlers[h].pc = "loaded"
  /\ handlers[h].reject
  /\ LET me == handlers[h] IN
     /\ signingRequests' =
          [signingRequests EXCEPT
             ![me.token] = Save(@, me.loaded, RejectSigner(me.loaded, me.signerIndex))]
     /\ handlers' = [handlers EXCEPT ![h] = [pc |-> "saved", token |-> me.token,
                                             signerIndex |-> me.signerIndex,
                                             reject |-> TRUE, completed |-> FALSE]]
  /\ UNCHANGED fieldVars
  /\ UNCHANGED <<now, documentStatus, issuedTokens, users, signatures,
                 response, completionTriggers>>

\* User.findOne / User.create, Signature.findOne / Signature.create
SignUpsertSignature(h) ==
  /\ handlers[h].pc = "loaded"
  /\ ~handlers[h].reject
  /\ users' = users \cup {handlers[h].email}
  /\ signatures' = UpsertSignature(signatures, handlers[h].email, handlers[h].data)
  /\ handlers' = [handlers EXCEPT ![h].pc = "signature"]
  /\ UNCHANGED fieldVars
  /\ UNCHANGED <<now, documentStatus, signingRequests, issuedTokens,
                 response, completionTriggers>>

\* signer.status = 'signed' ... allSigned ... await signingRequest.save(),
\* all computed on the document this handler loaded
SignSave(h) ==
  /\ handlers[h].pc = "signature"
  /\ LET me == handlers[h]
         mine == SignSigner(me.loaded, me.signerIndex, now) IN
     /\ signingRequests' =
          [signingRequests EXCEPT ![me.token] = Save(@, me.loaded, mine)]
     /\ handlers' = [handlers EXCEPT ![h] = [pc |-> "saved", token |-> me.token,
                                             signerIndex |-> me.signerIndex,
                                             reject |-> FALSE,
                                             completed |-> AllSigned(mine.signers)]]
  /\ UNCHANGED fieldVars
  /\ UNCHANGED <<now, documentStatus, issuedTokens, users, signatures,
                 response, completionTriggers>>

\* res.json(...)
SignRespond(h) ==
  /\ handlers[h].pc = "saved"
  /\ response' = Resp(IF handlers[h].reject THEN "reject" ELSE "signByToken", "ok",
                      handlers[h].completed, handlers[h].reject)
  /\ completionTriggers' = CountTrigger(completionTriggers, handlers[h].completed)
  /\ handlers' = [handlers EXCEPT ![h] = Idle]
  /\ UNCHANGED fieldVars
  /\ UNCHANGED <<now, documentStatus, signingRequests, issuedTokens, users,
                 signatures>>

NextConcurrent ==
  \/ \E caller \in Callers, emails \in SignerLists, o \in Orders,
        d \in ExpiresInDaysChoices : Create(caller, emails, o, d)
  \/ \E h \in Handlers, token \in AllTokens, email \in RawEmails,
        reject \in BOOLEAN, data \in SigData : SignLoad(h, token, email, reject, data)
  \/ \E h \in Handlers : SignSaveReject(h)
  \/ \E h \in Handlers : SignUpsertSignature(h)
  \/ \E h \in Handlers : SignSave(h)
  \/ \E h \in Handlers : SignRespond(h)

\* the handlers of signByToken interleaved at their awaits
SpecConcurrent == Init /\ [][NextConcurrent]_vars

(* ------------------------------ claims --------------------------------- *)

Kept(t) == t \in DOMAIN signingRequests /\ t \in DOMAIN signingRequests'

PastExpiry(req, t) == req.expiresAt # NullDate /\ t > req.expiresAt

DistinctEmails(signers) ==
  \A i, j \in 1..Len(signers) : i # j => signers[i].email # signers[j].email

TerminalStatuses == {"completed", "cancelled", "expired"}

TerminalStatesAbsorbing ==
  [][\A t \in Tokens :
       Kept(t) =>
         LET before == signingRequests[t].status
             after == signingRequests'[t].status IN
         /\ before \in TerminalStatuses => after = before
         /\ after # before =>
              \/ before = "pending" /\ after \in {"in_progress", "completed"}
              \/ before = "in_progress" /\ after = "completed"
              \/ before \in {"pending", "in_progress"}
                   /\ after \in {"cancelled", "expired"}
    ]_vars

\* C3: a request has status completed if and only if every signer in its
\* list has status signed.
CompletedIffAllSigned ==
  \A t \in DOMAIN signingRequests :
    (signingRequests[t].status = "completed") <=> AllSigned(signingRequests[t].signers)

\* C5: a response with completed = true is sent exactly on the step that
\* moves the request to completed, and a completed request keeps its status
\* and reports no further completion.
CompletionSingular ==
  [][\A t \in Tokens :
       Kept(t) =>
         LET before == signingRequests[t].status
             after == signingRequests'[t].status IN
         /\ completionTriggers' # completionTriggers =>
              /\ before # "completed"
              /\ after = "completed"
              /\ completionTriggers' = completionTriggers + 1
         /\ (before # "completed" /\ after = "completed") =>
              completionTriggers' = completionTriggers + 1
         /\ before = "completed" => after = "completed"
    ]_vars

\* C6: a sequential request with two different signers [A, B] is created with
\* currentSignerIndex 0 and status pending; while the index is 0 a sign call
\* by B is answered 403 and changes nothing, and a sign by A gives index 1 and
\* status in_progress; a sign by B at index 1 gives status completed; and
\* completed = true is reported once in all.
SequentialTwoSignerScenario ==
  [][\A t \in Tokens :
       ( /\ t \in DOMAIN signingRequests'
         /\ signingRequests'[t].signingOrder = "sequential"
         /\ Len(signingRequests'[t].signers) = 2
         /\ DistinctEmails(signingRequests'[t].signers) ) =>
         LET after == signingRequests'[t]
             A == after.signers[1].email
             B == after.signers[2].email IN
         /\ completionTriggers' <= 1
         /\ after.status = "completed" => completionTriggers' = 1
         /\ t \notin DOMAIN signingRequests =>
              /\ after.currentSignerIndex = 0
              /\ after.status = "pending"
         /\ t \in DOMAIN signingRequests =>
              LET req == signingRequests[t] IN
              \A reject \in BOOLEAN, data \in SigData :
                /\ (req.currentSignerIndex = 0 /\ SignByToken(t, B, reject, data)) =>
                     /\ response'.status = 403
                     /\ after = req
                /\ (req.currentSignerIndex = 0 /\ ~reject /\ SignByToken(t, A, reject, data)) =>
                     /\ after.currentSignerIndex = 1
                     /\ after.status = "in_progress"
                     /\ ~response'.completed
                /\ (req.currentSignerIndex = 1 /\ ~reject /\ SignByToken(t, B, reject, data)) =>
                     /\ after.status = "completed"
                     /\ response'.completed
                     /\ completionTriggers' = 1
    ]_vars

\* C6 witness: [A, B] sequential, both signed in turn, one completion reported
SequentialTwoSignerWitness ==
  \E t \in DOMAIN signingRequests :
    /\ signingRequests[t].signingOrder = "sequential"
    /\ Len(signingRequests[t].signers) = 2
    /\ DistinctEmails(signingRequests[t].signers)
    /\ signingRequests[t].status = "completed"
    /\ signingRequests[t].currentSignerIndex = 2
    /\ response.op = "signByToken" /\ response.completed
    /\ completionTriggers = 1

\* C7: in a parallel request with two different signers every listed signer's
\* sign call passes the checks whatever the other has done; signing in the
\* order A, B and in the order B, A from the same request gives the same
\* request, with both signed, status completed and currentSignerIndex as
\* created (0); and whenever both have signed the request is in that state.
ParallelOrderIndependent ==
  \A t \in DOMAIN signingRequests :
    LET req == signingRequests[t] IN
    ( /\ req.signingOrder = "parallel"
      /\ Len(req.signers) = 2
      /\ DistinctEmails(req.signers) ) =>
      LET ab == SignSigner(SignSigner(req, 0, now), 1, now)
          ba == SignSigner(SignSigner(req, 1, now), 0, now) IN
      /\ \A i \in 1..2 : SignByTokenError(t, req.signers[i].email) = "ok"
      /\ \A i \in 1..2 : FindIndex(req.signers, req.signers[i].email) = i - 1
      /\ ab = ba
      /\ AllSigned(ab.signers)
      /\ ab.status = "completed"
      /\ ab.currentSignerIndex = 0
      /\ req.currentSignerIndex = 0
      /\ AllSigned(req.signers) => req.status = "completed"

\* C7 witness: a parallel request completed with B's signature created
\* before A's
ParallelOrderWitness ==
  \E t \in DOMAIN signingRequests :
    LET req == signingRequests[t] IN
    /\ req.signingOrder = "parallel"
    /\ Len(req.signers) = 2
    /\ DistinctEmails(req.signers)
    /\ AllSigned(req.signers)
    /\ req.status = "completed"
    /\ Len(signatures) = 2
    /\ signatures[1].signer = req.signers[2].email
    /\ signatures[2].signer = req.signers[1].email

\* C8 as claimed: a rejection by a signer who passes the checks, on a request
\* whose status is pending or in_progress, marks that signer rejected,
\* notifies the owner, leaves the request status in_progress and changes
\* nothing else.
RejectionLeavesInProgress ==
  [][\A t \in Tokens, email \in RawEmails, data \in SigData :
       ( /\ Kept(t)
         /\ signingRequests[t].status \in {"pending", "in_progress"}
         /\ SignByTokenError(t, email) = "ok"
         /\ SignByToken(t, email, TRUE, data) ) =>
         LET req == signingRequests[t]
             i == FindIndex(req.signers, email) + 1 IN
         /\ signingRequests'[t].signers[i].status = "rejected"
         /\ response'.ownerNotified
         /\ signingRequests'[t].status = "in_progress"
         /\ signingRequests'[t].currentSignerIndex = req.currentSignerIndex
         /\ UNCHANGED <<signatures, users, documentStatus, completionTriggers>>
    ]_vars

\* C8 amended: as above, but the request status is left as it was (pending
\* stays pending, in_progress stays in_progress), and the request differs
\* from the one before in that signer's status alone.
RejectionStallsRequest ==
  [][\A t \in Tokens, email \in RawEmails, data \in SigData :
       ( /\ Kept(t)
         /\ signingRequests[t].status \in {"pending", "in_progress"}
         /\ SignByTokenError(t, email) = "ok"
         /\ SignByToken(t, email, TRUE, data) ) =>
         LET req == signingRequests[t]
             i == FindIndex(req.signers, email) + 1 IN
         /\ signingRequests'[t] = [req EXCEPT !.signers[i].status = "rejected"]
         /\ signingRequests'[t].status = req.status
         /\ signingRequests'[t].status \notin {"completed", "cancelled"}
         /\ response'.op = "reject"
         /\ response'.status = 200
         /\ response'.ownerNotified
         /\ UNCHANGED <<signatures, users, documentStatus, completionTriggers,
                        issuedTokens, now>>
    ]_vars

\* C8 witness: a fresh request whose first signer has just rejected
RejectionWitness ==
  \E t \in DOMAIN signingRequests :
    /\ response.op = "reject"
    /\ signingRequests[t].status = "pending"
    /\ signingRequests[t].signers[1].status = "rejected"
    /\ signatures = <<>>

\* C9: getByToken answers 404 for a token no request has, and 410 for a
\* request whose expiresAt has passed, whatever its stored status, its
\* signing order and the email given.
ExpiredTokenIsGone ==
  [][\A token \in AllTokens, email \in RawEmails \cup {""} :
       GetByToken(token, email) =>
         /\ ~Found(token) =>
              (response'.status = 404 /\ response'.error = "not found")
         /\ (Found(token) /\ PastExpiry(signingRequests[token], now)) =>
              (response'.status = 410 /\ response'.error = "expired")
    ]_vars

\* C9 witness: Gone was answered for a request stored as completed
ExpiredTokenWitness ==
  \E t \in DOMAIN signingRequests :
    /\ PastExpiry(signingRequests[t], now)
    /\ signingRequests[t].status = "completed"
    /\ response.op = "getByToken"
    /\ response.status = 410

\* C10: once now > expiresAt no signByToken call (sign or reject) changes the
\* request's signers, currentSignerIndex or status, nor the Signature
\* records.
ExpiredRequestFrozen ==
  [][\A t \in Tokens, email \in RawEmails, reject \in BOOLEAN, data \in SigData :
       ( /\ Kept(t)
         /\ PastExpiry(signingRequests[t], now)
         /\ SignByToken(t, email, reject, data) ) =>
         /\ signingRequests'[t].signers = signingRequests[t].signers
         /\ signingRequests'[t].currentSignerIndex = signingRequests[t].currentSignerIndex
         /\ signingRequests'[t].status = signingRequests[t].status
         /\ signatures' = signatures
    ]_vars

\* C4: when two handlers have signed for two different signers of the same
\* parallel request and every signer is now signed, both signers are stored
\* as signed, the stored status is completed, and exactly one of the two
\* handlers reports completed = true.
ConcurrentCompletionExactlyOnce ==
  \A h1, h2 \in Handlers :
    ( /\ h1 # h2
      /\ handlers[h1].pc = "saved" /\ handlers[h2].pc = "saved"
      /\ ~handlers[h1].reject /\ ~handlers[h2].reject
      /\ handlers[h1].token = handlers[h2].token
      /\ handlers[h1].signerIndex # handlers[h2].signerIndex
      /\ Found(handlers[h1].token)
      /\ signingRequests[handlers[h1].token].signingOrder = "parallel" ) =>
      LET req == signingRequests[handlers[h1].token] IN
      /\ req.signers[handlers[h1].signerIndex + 1].status = "signed"
      /\ req.signers[handlers[h2].signerIndex + 1].status = "signed"
      /\ AllSigned(req.signers) =>
           /\ req.status = "completed"
           /\ handlers[h1].completed # handlers[h2].completed

\* C11: a cancel by the owner of a completed request is answered 400 and
\* changes nothing; a cancel by the owner of any other request sets its
\* status to cancelled and changes nothing else; a cancel by another caller
\* is answered 404 and changes nothing.
CancelContract ==
  [][\A t \in Tokens, caller \in Callers :
       (Found(t) /\ Cancel(t, caller)) =>
         LET req == signingRequests[t] IN
         /\ UNCHANGED <<signatures, users, documentStatus, completionTriggers,
                        issuedTokens, now, handlers>>
         /\ caller # "owner" =>
              (response'.status = 404 /\ UNCHANGED signingRequests)
         /\ (caller = "owner" /\ req.status = "completed") =>
              /\ response'.status = 400
              /\ response'.error = "cannot cancel completed"
              /\ UNCHANGED signingRequests
         /\ (caller = "owner" /\ req.status # "completed") =>
              /\ response'.status = 200
              /\ signingRequests' =
                   [signingRequests EXCEPT ![t] = [req EXCEPT !.status = "cancelled"]]
    ]_vars

\* C11 witness: a cancel of a completed request was refused, and the request
\* is still completed
CancelRefusedWitness ==
  \E t \in DOMAIN signingRequests :
    /\ signingRequests[t].status = "completed"
    /\ response.op = "cancel"
    /\ response.error = "cannot cancel completed"

(* --------------------------- field registry ---------------------------- *)

\* Limits of the explored field registry.
MaxCreated == 2
MaxSignatures == 2
MaxRecipients == 2

\* A request-body property is the set of the one value sent, or {} when the
\* property was not sent.
Unsent == {}
Sent(v) == {v}
Get(property, otherwise) ==
  IF property = Unsent THEN otherwise ELSE CHOOSE v \in property : TRUE

\* width || 150: an unsent number is the number 0, falsy like undefined.
OrDefault(v, d) == IF v = 0 THEN d ELSE v

\* !value of JavaScript for a field value.
Falsy(v) == v = NullValue \/ v = ""

\* The response of a field, finalize or recipient route.
FieldReply(op, status, error, count, body) ==
  [op |-> op, status |-> status, error |-> error, count |-> count, body |-> body]

NoBody == Pdf("", <<>>)

\* A SignatureField document with the schema's defaults.
NewField(id, page, x, y, width, height, type, required, assignedTo, linkedFieldId) ==
  [id |-> id, page |-> page, x |-> x, y |-> y, width |-> width,
   height |-> height, type |-> type, required |-> required,
   assignedTo |-> assignedTo, value |-> NullValue, status |-> "pending",
   signer |-> NullValue, linkedFieldId |-> linkedFieldId]

\* findById on the field collection: the position of the field, 0 if absent.
FieldAt(fs, id) ==
  IF \E i \in 1..Len(fs) : fs[i].id = id
    THEN CHOOSE i \in 1..Len(fs) : fs[i].id = id
    ELSE 0

\* deleteOne({_id: id})
Without(fs, id) == SelectSeq(fs, LAMBDA f : f.id # id)

\* signatureFieldController.create
FieldCreate(caller, page, x, y, width, height, type, required, assignedTo) ==
  /\ createdFields < MaxCreated
  /\ IF caller # "owner"
       THEN /\ response' = FieldReply("create", 404, "Document not found", 0, NoBody)
            /\ UNCHANGED <<fields, createdFields>>
       ELSE /\ fields' = Append(fields,
                 NewField(createdFields + 1, page, x, y, OrDefault(width, 150),
                          OrDefault(height, 50), type, required # Sent(FALSE),
                          Get(assignedTo, NullValue), NoLink))
            /\ createdFields' = createdFields + 1
            /\ response' = FieldReply("create", 201, "ok", 0, NoBody)
  /\ UNCHANGED <<documentStatus, users, signatures, recipients, documentFile,
                 files, finalizer>>
  /\ UNCHANGED requestVars

\* signatureFieldController.update
FieldUpdate(caller, id, x, y, required, assignedTo) ==
  /\ LET i == FieldAt(fields, id) IN
     IF i = 0
       THEN /\ response' = FieldReply("update", 404, "Field not found", 0, NoBody)
            /\ UNCHANGED fields
       ELSE IF caller # "owner"
         THEN /\ response' = FieldReply("update", 403, "Not authorized", 0, NoBody)
              /\ UNCHANGED fields
         ELSE /\ fields' = [fields EXCEPT ![i] =
                   [@ EXCEPT !.x = Get(x, @),
                             !.y = Get(y, @),
                             !.required = Get(required, @),
                             !.assignedTo = Get(assignedTo, @)]]
              /\ response' = FieldReply("update", 200, "ok", 0, NoBody)
  /\ UNCHANGED <<documentStatus, users, signatures, createdFields, recipients,
                 documentFile, files, finalizer>>
  /\ UNCHANGED requestVars

\* signatureFieldController.delete
FieldDelete(caller, id) ==
  /\ LET i == FieldAt(fields, id) IN
     IF i = 0
       THEN /\ response' = FieldReply("delete", 404, "Field not found", 0, NoBody)
            /\ UNCHANGED fields
       ELSE IF caller # "owner"
         THEN /\ response' = FieldReply("delete", 403, "Not authorized", 0, NoBody)
              /\ UNCHANGED fields
         ELSE /\ fields' = Without(fields, id)
              /\ response' = FieldReply("delete", 200, "ok", 0, NoBody)
  /\ UNCHANGED <<documentStatus, users, signatures, createdFields, recipients,
                 documentFile, files, finalizer>>
  /\ UNCHANGED <<requestVars, canvas>>

\* The authorization test of fill: the caller is refused.
FillForbidden(caller, field) ==
  LET isOwner == caller = "owner"
      isAssigned == field.assignedTo = caller
  IN  ~isOwner /\ ~isAssigned /\ field.required

\* fill creates a Signature record for these request-body types.
CreatesSignature(type) == type \in {"signature", "initials", "drawn"}

\* The type of the Signature record fill creates.
FillSignatureType(type) ==
  IF type = "drawn" THEN "drawn" ELSE IF type = "initials" THEN "typed" ELSE "drawn"

\* signatureData || value
FillSignatureData(signatureData, value) ==
  IF signatureData = Unsent \/ signatureData = Sent("")
    THEN value
    ELSE Get(signatureData, value)

FieldSignature(caller, field, type, data) ==
  [signer |-> caller, page |-> field.page, x |-> field.x, y |-> field.y,
   width |-> field.width, height |-> field.height,
   type |-> FillSignatureType(type), signatureData |-> data, status |-> "signed"]

\* The Document status after a fill.
AfterFillStatus(status) ==
  IF status \in {"draft", "pending"} THEN "partially_signed" ELSE status

\* signatureFieldController.fill.  Signature.create rejects an empty
\* signatureData (required by the schema): the handler then ends with a 500
\* after the field was saved.
Fill(caller, id, value, type, signatureData) ==
  /\ LET i == FieldAt(fields, id) IN
     IF i = 0
       THEN /\ response' = FieldReply("fill", 404, "Field not found", 0, NoBody)
            /\ UNCHANGED <<fields, signatures, documentStatus>>
       ELSE IF FillForbidden(caller, fields[i])
         THEN /\ response' = FieldReply("fill", 403, "Not authorized to fill this field", 0, NoBody)
              /\ UNCHANGED <<fields, signatures, documentStatus>>
         ELSE LET data == FillSignatureData(signatureData, value) IN
              /\ fields' = [fields EXCEPT ![i] =
                    [@ EXCEPT !.value = value, !.status = "completed",
                              !.signer = caller]]
              /\ IF CreatesSignature(type) /\ data = ""
                   THEN /\ response' = FieldReply("fill", 500, "Signature validation failed", 0, NoBody)
                        /\ UNCHANGED <<signatures, documentStatus>>
                   ELSE /\ IF CreatesSignature(type)
                             THEN /\ Len(signatures) < MaxSignatures
                                  /\ signatures' = Append(signatures,
                                       FieldSignature(caller, fields[i], type, data))
                             ELSE UNCHANGED signatures
                        /\ documentStatus' = AfterFillStatus(documentStatus)
                        /\ response' = FieldReply("fill", 200, "ok", 0, NoBody)
  /\ UNCHANGED <<users, createdFields, recipients, documentFile, files, finalizer>>
  /\ UNCHANGED <<requestVars, canvas>>

\* The pages linkField copies the source field to.
RECURSIVE LinkPages(_, _)
LinkPages(targetPages, sourcePage) ==
  IF targetPages = <<>> THEN <<>>
  ELSE IF Head(targetPages) = sourcePage
    THEN LinkPages(Tail(targetPages), sourcePage)
    ELSE <<Head(targetPages)>> \o LinkPages(Tail(targetPages), sourcePage)

\* sourceField.linkedFieldId || sourceField._id
LinkedId(field) == IF field.linkedFieldId = NoLink THEN field.id ELSE field.linkedFieldId

\* signatureFieldController.linkField
LinkField(caller, id, targetPages) ==
  /\ LET i == FieldAt(fields, id) IN
     IF i = 0
       THEN /\ response' = FieldReply("link", 404, "Field not found", 0, NoBody)
            /\ UNCHANGED <<fields, createdFields>>
       ELSE IF caller # "owner"
         THEN /\ response' = FieldReply("link", 403, "Not authorized", 0, NoBody)
              /\ UNCHANGED <<fields, createdFields>>
         ELSE LET source == fields[i]
                  pages == LinkPages(targetPages, source.page)
                  copies == [k \in 1..Len(pages) |->
                               NewField(createdFields + k, pages[k], source.x, source.y,
                                        source.width, source.height, source.type,
                                        source.required, source.assignedTo,
                                        LinkedId(source))]
              IN
              /\ createdFields + Len(pages) <= MaxCreated
              /\ fields' = [fields EXCEPT ![i] = [@ EXCEPT !.linkedFieldId = LinkedId(source)]]
                             \o copies
              /\ createdFields' = createdFields + Len(pages)
              /\ response' = FieldReply("link", 200, "ok", Len(pages), NoBody)
  /\ UNCHANGED <<documentStatus, users, signatures, recipients, documentFile,
                 files, finalizer>>
  /\ UNCHANGED <<requestVars, canvas>>

\* signatureFieldController.createFromTemplate
CreateFromTemplate(caller, template) ==
  /\ createdFields + Len(template) <= MaxCreated
  /\ IF caller # "owner"
       THEN /\ response' = FieldReply("template", 404, "Document not found", 0, NoBody)
            /\ UNCHANGED <<fields, createdFields>>
       ELSE /\ fields' = fields \o
                 [k \in 1..Len(template) |->
                    NewField(createdFields + k, template[k].page, template[k].x,
                             template[k].y, OrDefault(template[k].width, 150),
                             OrDefault(template[k].height, 50), template[k].type,
                             Get(template[k].required, TRUE),
                             Get(template[k].assignedTo, NullValue), NoLink)]
            /\ createdFields' = createdFields + Len(template)
            /\ response' = FieldReply("template", 201, "ok", Len(template), NoBody)
  /\ UNCHANGED <<documentStatus, users, signatures, recipients, documentFile,
                 files, finalizer>>
  /\ UNCHANGED <<requestVars, canvas>>

(* ------------------------- document recipients ------------------------- *)

\* addDocumentRecipients, for one recipient
AddDocumentRecipients(caller, email, role) ==
  /\ Len(recipients) < MaxRecipients
  /\ IF caller # "owner"
       THEN /\ response' = FieldReply("addRecipients", 403, "Not authorized to modify this document", 0, NoBody)
            /\ UNCHANGED recipients
       ELSE /\ recipients' = Append(recipients,
                 [email |-> Lowercase(email), role |-> role, status |-> "pending"])
            /\ response' = FieldReply("addRecipients", 201, "ok", 0, NoBody)
  /\ UNCHANGED <<documentStatus, users, signatures, fields, createdFields,
                 documentFile, files, finalizer>>
  /\ UNCHANGED <<requestVars, canvas>>

\* DocumentRecipient.findOne({document, email}): position, 0 if absent.
RecipientAt(rs, email) ==
  IF \E i \in 1..Len(rs) : rs[i].email = email
    THEN CHOOSE i \in 1..Len(rs) :
           rs[i].email = email /\ \A j \in 1..(i - 1) : rs[j].email # email
    ELSE 0

\* The filter of the upsert in signDocumentByRecipient: the first field
\* assigned to the email on the page, 0 if there is none.
AssignedFieldAt(fs, email, page) ==
  LET hits == {i \in 1..Len(fs) : fs[i].assignedTo = email /\ fs[i].page = page} IN
  IF hits = {} THEN 0 ELSE CHOOSE i \in hits : \A j \in hits : i <= j

\* The update document of the upsert, applied to a field.
RecipientFieldUpdate(field, email, signer, page, x, y, width, height, signatureData) ==
  [field EXCEPT !.page = page, !.x = x, !.y = y,
                !.width = OrDefault(width, 150), !.height = OrDefault(height, 50),
                !.type = "signature", !.assignedTo = email, !.required = TRUE,
                !.value = signatureData, !.signer = signer, !.status = "signed"]

RecipientSignature(signer, page, x, y, width, height, type, signatureData) ==
  [signer |-> signer, page |-> page, x |-> x, y |-> y,
   width |-> OrDefault(width, 150), height |-> OrDefault(height, 50),
   type |-> type, signatureData |-> signatureData, status |-> "signed"]

\* allRecipients.every(r => r.status === 'signed')
AllRecipientsSigned(rs) == \A i \in 1..Len(rs) : rs[i].status = "signed"

\* signDocumentByRecipient: a public route, the caller is whoever holds
\* the link with the recipient's email.
SignDocumentByRecipient(documentId, email, signatureData, type, page, x, y, width, height) ==
  /\ LET r == RecipientAt(recipients, Lowercase(email)) IN
     IF documentId # DocumentId
       THEN /\ response' = FieldReply("recipientSign", 404, "Document not found", 0, NoBody)
            /\ UNCHANGED <<recipients, users, signatures, fields, createdFields, documentStatus>>
     ELSE IF r = 0
       THEN /\ response' = FieldReply("recipientSign", 403, "You are not authorized to sign this document", 0, NoBody)
            /\ UNCHANGED <<recipients, users, signatures, fields, createdFields, documentStatus>>
       ELSE IF recipients[r].status # "pending"
         THEN /\ response' = FieldReply("recipientSign", 400, "Document already signed or action not allowed", 0, NoBody)
              /\ UNCHANGED <<recipients, users, signatures, fields, createdFields, documentStatus>>
         ELSE LET i == AssignedFieldAt(fields, Lowercase(email), page)
                  signed == [recipients EXCEPT ![r].status = "signed"]
              IN
              /\ Len(signatures) < MaxSignatures
              /\ users' = users \cup {email}
              /\ signatures' = Append(signatures,
                    RecipientSignature(email, page, x, y, width, height, type, signatureData))
              /\ IF i = 0
                   THEN /\ createdFields < MaxCreated
                        /\ fields' = Append(fields,
                              RecipientFieldUpdate(
                                NewField(createdFields + 1, page, x, y, 150, 50,
                                         "signature", TRUE, NullValue, NoLink),
                                Lowercase(email), email, page, x, y, width, height,
                                signatureData))
                        /\ createdFields' = createdFields + 1
                   ELSE /\ fields' = [fields EXCEPT ![i] =
                              RecipientFieldUpdate(@, Lowercase(email), email, page,
                                                   x, y, width, height, signatureData)]
                        /\ UNCHANGED createdFields
              /\ recipients' = signed
              /\ documentStatus' = IF AllRecipientsSigned(signed) THEN "completed"
                                   ELSE documentStatus
              /\ response' = FieldReply("recipientSign", 200, "ok", 0, NoBody)
  /\ UNCHANGED <<documentFile, files, finalizer>>
  /\ UNCHANGED <<requestVars, canvas>>

(* ------------------------- finalization engine ------------------------- *)

\* value.startsWith('data:image')
StartsWithDataImage(v) == v \in {PngOk, PngBad}

\* pdfDoc.embedPng(dataURLToBytes(v)) returns instead of throwing.
DecodesAsPng(v) == v = PngOk

Substring20Whole(v) == v

\* value.substring(0, 20): the values other than the data URLs are shorter.
Substring20(v) == IF StartsWithDataImage(v) THEN "data:image/png;base6" ELSE v

\* page.drawImage and page.drawText on the page of the field.
DrawImage(f, x, y) ==
  [field |-> f.id, page |-> f.page, draw |-> "image", content |-> f.value,
   font |-> "none", size |-> 0, color |-> "none", x |-> x, y |-> y,
   width |-> f.width, height |-> f.height]

DrawText(f, text, font, size, color, x, y) ==
  [field |-> f.id, page |-> f.page, draw |-> "text", content |-> text,
   font |-> font, size |-> size, color |-> color, x |-> x, y |-> y,
   width |-> 0, height |-> 0]

PdfY(f) == PageHeight - f.y - f.height

\* One iteration of the loop of generateSignedPDF: what is drawn for a field.
FinalizeDraw(f) ==
  LET pdfX == f.x
      pdfY == PdfY(f)
      mid == pdfY + f.height \div 2
  IN
  IF f.page > PageCount \/ Falsy(f.value) THEN <<>>
  ELSE IF f.type \in {"signature", "initials"} THEN
    IF StartsWithDataImage(f.value)
      THEN IF DecodesAsPng(f.value)
             THEN <<DrawImage(f, pdfX, pdfY)>>
             ELSE <<DrawText(f, Substring20(f.value), "Helvetica", 12, "black", pdfX, mid)>>
      ELSE <<DrawText(f, f.value, "Courier",
                      IF f.type = "initials" THEN 16 ELSE 12, "black", pdfX,
                      mid - (IF f.type = "initials" THEN 5 ELSE 0))>>
  ELSE IF f.type \in {"name", "text", "input"} THEN
    <<DrawText(f, f.value, "Helvetica", 10, "black", pdfX + 2, mid - 4)>>
  ELSE IF f.type = "witness" THEN
    IF StartsWithDataImage(f.value)
      THEN IF DecodesAsPng(f.value)
             THEN <<DrawImage(f, pdfX, pdfY)>>
             ELSE <<DrawText(f, "Witness: " \o Substring20(f.value), "Courier", 10,
                             "blue", pdfX, mid)>>
      ELSE <<DrawText(f, "Witness: " \o f.value, "Courier", 12, "blue", pdfX, mid)>>
  ELSE IF f.type = "date" THEN
    <<DrawText(f, f.value, "Helvetica", 10, "blue", pdfX + 2, mid - 4)>>
  ELSE IF f.type = "checkbox" /\ f.value = "checked" THEN
    <<DrawText(f, "check glyph", "ZapfDingbats", 14, "green", pdfX + 8, pdfY + 5)>>
  ELSE <<>>

\* One iteration of the loop of preview.
PreviewDraw(f) ==
  LET pdfX == f.x
      pdfY == PdfY(f)
      mid == pdfY + f.height \div 2
  IN
  IF f.page > PageCount \/ Falsy(f.value) THEN <<>>
  ELSE IF f.type \in {"signature", "initials"} THEN
    IF StartsWithDataImage(f.value)
      THEN IF DecodesAsPng(f.value)
             THEN <<DrawImage(f, pdfX, pdfY)>>
             ELSE <<DrawText(f, Substring20(f.value), "Helvetica", 12, "black", pdfX, mid)>>
      ELSE <<DrawText(f, f.value, "Courier",
                      IF f.type = "initials" THEN 16 ELSE 12, "black", pdfX,
                      mid - (IF f.type = "initials" THEN 5 ELSE 0))>>
  ELSE IF f.type \in {"name", "text", "input"} THEN
    <<DrawText(f, f.value, "Helvetica", 10, "black", pdfX + 2, mid - 4)>>
  ELSE IF f.type = "date" THEN
    <<DrawText(f, f.value, "Helvetica", 10, "blue", pdfX + 2, mid - 4)>>
  ELSE IF f.type = "checkbox" /\ f.value = "checked" THEN
    <<DrawText(f, "check glyph", "ZapfDingbats", 14, "green", pdfX + 8, pdfY + 5)>>
  ELSE <<>>

\* find(...).sort({page: 1}): by page, creation order within a page.
RECURSIVE SortByPage(_)
SortByPage(fs) ==
  IF fs = <<>> THEN <<>>
  ELSE LET first == CHOOSE i \in 1..Len(fs) :
                      /\ \A j \in 1..Len(fs) : fs[i].page <= fs[j].page
                      /\ \A j \in 1..(i - 1) : fs[j].page # fs[i].page
       IN <<fs[first]>> \o
          SortByPage([k \in 1..(Len(fs) - 1) |-> IF k < first THEN fs[k] ELSE fs[k + 1]])

\* What the loop of generateSignedPDF draws for the fields it read.
RECURSIVE FinalizeRender(_)
FinalizeRender(fs) ==
  IF fs = <<>> THEN <<>> ELSE FinalizeDraw(Head(fs)) \o FinalizeRender(Tail(fs))

\* What the loop of preview draws for the fields it read.
RECURSIVE PreviewRender(_)
PreviewRender(fs) ==
  IF fs = <<>> THEN <<>> ELSE PreviewDraw(Head(fs)) \o PreviewRender(Tail(fs))

\* The optional fields too: the gate without its required filter.
UnfilledAny(fs) == SelectSeq(fs, LAMBDA f : Falsy(f.value))

\* fields.filter(f => f.required).filter(f => !f.value)
UnfilledRequired(fs) == SelectSeq(fs, LAMBDA f : f.required /\ Falsy(f.value))

SignedPathIsOriginal(doc) == doc.filePath

\* path.join('uploads', 'signed', `signed_${document.fileName}`)
SignedPath(doc) == "uploads/signed/signed_" \o doc.fileName

\* The original PDF with the fields drawn on it.
Rendered(original, drawn) == Pdf(original.base, original.drawn \o drawn)

\* finalizeController.finalize, with generateSignedPDF, as one step
Finalize(caller) ==
  /\ IF caller # "owner"
       THEN /\ response' = FieldReply("finalize", 404, "Document not found", 0, NoBody)
            /\ UNCHANGED <<documentStatus, documentFile, files>>
       ELSE LET unfilledRequired == UnfilledRequired(fields) IN
            IF Len(unfilledRequired) > 0
              THEN /\ response' = FieldReply("finalize", 400, "required field(s) not filled",
                                             Len(unfilledRequired), NoBody)
                   /\ UNCHANGED <<documentStatus, documentFile, files>>
              ELSE /\ files' = (SignedPath(documentFile) :>
                                  Rendered(files[documentFile.filePath],
                                           FinalizeRender(SortByPage(fields)))) @@ files
                   /\ documentFile' = [documentFile EXCEPT
                                         !.signedFilePath = SignedPath(documentFile)]
                   /\ documentStatus' = "completed"
                   /\ response' = FieldReply("finalize", 200, "ok", Len(fields), NoBody)
  /\ UNCHANGED <<users, signatures, fields, createdFields, recipients, finalizer>>
  /\ UNCHANGED <<requestVars, canvas>>

\* finalizeController.preview
Preview(caller) ==
  /\ IF caller # "owner"
       THEN response' = FieldReply("preview", 404, "Document not found", 0, NoBody)
       ELSE response' = FieldReply("preview", 200, "ok", 0,
                          Rendered(files[documentFile.filePath],
                                   PreviewRender(SortByPage(fields))))
  /\ UNCHANGED <<documentStatus, users, signatures>>
  /\ UNCHANGED fieldVars
  /\ UNCHANGED <<requestVars, canvas>>

(* ---------------- finalize, one step per read of the fields ------------ *)

\* finalize up to its gate: Document.findOne, SignatureField.find, the check
FinalizeGate(caller) ==
  /\ finalizer.pc = "idle"
  /\ IF caller # "owner"
       THEN /\ response' = FieldReply("finalize", 404, "Document not found", 0, NoBody)
            /\ UNCHANGED finalizer
       ELSE LET unfilledRequired == UnfilledRequired(fields) IN
            IF Len(unfilledRequired) > 0
              THEN /\ response' = FieldReply("finalize", 400, "required field(s) not filled",
                                             Len(unfilledRequired), NoBody)
                   /\ UNCHANGED finalizer
              ELSE /\ finalizer' = [pc |-> "gated", fields |-> fields]
                   /\ UNCHANGED response
  /\ UNCHANGED <<documentStatus, users, signatures, fields, createdFields,
                 recipients, documentFile, files>>
  /\ UNCHANGED <<requestVars, canvas>>

\* generateSignedPDF: its own SignatureField.find, the loop, the write of the
\* artifact and the save of the Document
FinalizeGenerate ==
  /\ finalizer.pc = "gated"
  /\ files' = (SignedPath(documentFile) :>
                 Rendered(files[documentFile.filePath],
                          FinalizeRender(SortByPage(fields)))) @@ files
  /\ documentFile' = [documentFile EXCEPT !.signedFilePath = SignedPath(documentFile)]
  /\ documentStatus' = "completed"
  /\ finalizer' = [pc |-> "generated", fields |-> finalizer.fields]
  /\ UNCHANGED <<users, signatures, response, fields, createdFields, recipients>>
  /\ UNCHANGED <<requestVars, canvas>>

\* finalize after generateSignedPDF returned: document.save and the response
FinalizeRespond ==
  /\ finalizer.pc = "generated"
  /\ documentStatus' = "completed"
  /\ response' = FieldReply("finalize", 200, "ok", Len(finalizer.fields), NoBody)
  /\ finalizer' = NoFinalize
  /\ UNCHANGED <<users, signatures, fields, createdFields, recipients,
                 documentFile, files>>
  /\ UNCHANGED <<requestVars, canvas>>

(* ------------------ specifications of the field routes ----------------- *)

\* The identifiers a request can name: those generated and one that is not.
FieldIds == 1..(MaxCreated + 1)

\* A field as create and fill leave it: created by the owner on page 1 with
\* the default size, then possibly filled by the owner.
StoredField(id, c) ==
  [NewField(id, 1, 10, 20, 150, 50, c.type, c.required, c.assignedTo, NoLink)
     EXCEPT !.value = c.value,
            !.status = IF c.value = NullValue THEN "pending" ELSE "completed",
            !.signer = IF c.value = NullValue THEN NullValue ELSE "owner"]

\* The field collections of n fields drawn from the choices.
FieldLists(n, choices) ==
  {[i \in 1..n |-> StoredField(i, c[i])] : c \in [1..n -> choices]}

\* The state after the upload of the document, without the fields.
InitDocument ==
  /\ now = 0
  /\ documentStatus \in {"draft", "pending"}
  /\ signingRequests = <<>>
  /\ issuedTokens = {}
  /\ users = {}
  /\ signatures = <<>>
  /\ response = FieldReply("none", 0, "none", 0, NoBody)
  /\ completionTriggers = 0
  /\ handlers = [h \in Handlers |-> Idle]
  /\ recipients = <<>>
  /\ documentFile = [fileName |-> FileName, filePath |-> FilePath,
                     signedFilePath |-> NullValue]
  /\ files = (FilePath :> OriginalPdf)
  /\ finalizer = NoFinalize
  /\ canvas = InitialCanvas

\* Before any field exists.
InitFields ==
  /\ InitDocument
  /\ fields = <<>>
  /\ createdFields = 0

\* Authoring: the routes that add, move, remove or re-attribute fields.
AuthoringCallers == {"owner", "a"}
Templates ==
  {<<[page |-> 1, x |-> 10, y |-> 20, width |-> 0, height |-> 0,
      type |-> "signature", required |-> Unsent, assignedTo |-> Sent("a")]>>}
RecipientEmails == {"a", "c"}

NextAuthoring ==
  \/ \E caller \in AuthoringCallers, assignedTo \in {Unsent, Sent("a")} :
        /\ FieldCreate(caller, 1, 10, 20, 0, 0, "signature", Unsent, assignedTo)
        /\ UNCHANGED canvas
  \/ \E caller \in AuthoringCallers, id \in FieldIds :
        /\ FieldUpdate(caller, id, Sent(30), Unsent, Unsent, Unsent)
        /\ UNCHANGED canvas
  \/ \E caller \in AuthoringCallers, id \in FieldIds : FieldDelete(caller, id)
  \/ \E caller \in AuthoringCallers, id \in FieldIds : LinkField(caller, id, <<1, 2>>)
  \/ \E caller \in AuthoringCallers, template \in Templates :
        CreateFromTemplate(caller, template)
  \/ \E caller \in AuthoringCallers : AddDocumentRecipients(caller, "a", "signer")
  \/ \E email \in RecipientEmails :
        SignDocumentByRecipient(DocumentId, email, PngOk, "drawn", 1, 40, 20, 0, 0)

SpecAuthoring == InitFields /\ [][NextAuthoring]_vars

\* Filling: one field of each kind, filled by each caller.
FillChoices ==
  [type : {"signature", "initials", "text"}, required : BOOLEAN,
   assignedTo : {NullValue, "a"}, value : {NullValue}]
FillTypes == {"signature", "text"}

InitFill ==
  /\ InitDocument
  /\ fields \in FieldLists(1, FillChoices)
  /\ createdFields = 1

NextFill ==
  \/ \E caller \in FieldCallers, id \in FieldIds, type \in FillTypes :
        Fill(caller, id, "Jane", type, Unsent)
  \/ \E caller \in FieldCallers : Finalize(caller)

SpecFill == InitFill /\ [][NextFill]_vars

\* Finalizing: documents with up to MaxCreated text fields, required or
\* optional, empty or filled.
FinalizeChoices ==
  [type : {"text"}, required : BOOLEAN, assignedTo : {NullValue},
   value : {NullValue, "", "Jane"}]

InitFinalize ==
  /\ InitDocument
  /\ \E n \in 0..MaxCreated : fields \in FieldLists(n, FinalizeChoices)
  /\ createdFields = Len(fields)

NextFinalize ==
  \/ \E caller \in {"owner", "other"} : Finalize(caller)
  \/ \E caller \in {"owner", "other"} : Preview(caller)
  \/ \E id \in FieldIds : Fill("owner", id, "Jane", "text", Unsent)
  \/ AddDocumentRecipients("owner", "a", "signer")
  \/ SignDocumentByRecipient(DocumentId, "a", PngOk, "drawn", 1, 40, 20, 0, 0)

SpecFinalize == InitFinalize /\ [][NextFinalize]_vars

\* Finalizing while the owner creates, fills and deletes fields: finalize
\* runs as its steps, the other routes between them.
NextFinalizeConcurrent ==
  \/ \E required \in {Unsent, Sent(FALSE)} :
        /\ FieldCreate("owner", 1, 10, 20, 0, 0, "text", required, Unsent)
        /\ UNCHANGED canvas
  \/ \E id \in FieldIds : Fill("owner", id, "Jane", "text", Unsent)
  \/ \E id \in FieldIds : FieldDelete("owner", id)
  \/ \E caller \in {"owner", "other"} : FinalizeGate(caller)
  \/ FinalizeGenerate
  \/ FinalizeRespond

SpecFinalizeConcurrent == InitFields /\ [][NextFinalizeConcurrent]_vars

\* Rendering: documents with fields of every type holding every kind of
\* value, all optional so that the gate lets every combination through.
RenderChoices ==
  [type : FieldTypes, required : {FALSE}, assignedTo : {NullValue},
   value : {NullValue, "Jane", "checked", PngOk, PngBad}]

InitRender ==
  /\ InitDocument
  /\ documentStatus = "draft"
  /\ \E n \in 1..MaxCreated : fields \in FieldLists(n, RenderChoices)
  /\ createdFields = Len(fields)

NextRender ==
  \/ Finalize("owner")
  \/ Preview("owner")

SpecRender == InitRender /\ [][NextRender]_vars


(* ----------------------- field and finalize claims --------------------- *)

\* The positions of the required fields, and of those that have a value.
RequiredFields(fs) == {i \in 1..Len(fs) : fs[i].required}
ValuedRequiredFields(fs) ==
  {i \in RequiredFields(fs) : fs[i].value # NullValue /\ fs[i].value # ""}

\* C12: the finalize gate.  With N required fields of which M have a value,
\* an owner's finalize fails with 400 reporting exactly N - M unfilled fields
\* when M < N and leaves Document.status, the artifact reference and the
\* stored files unchanged; when M = N it succeeds, whatever the optional
\* fields hold: the Document becomes completed and the artifact is recorded.
FinalizeGateContract ==
  [][(Finalize("owner") /\ response'.op = "finalize") =>
       LET N == Cardinality(RequiredFields(fields))
           M == Cardinality(ValuedRequiredFields(fields))
       IN
       IF M < N
         THEN /\ response'.status = 400
              /\ response'.count = N - M
              /\ UNCHANGED <<documentStatus, documentFile, files, fields>>
         ELSE /\ response'.status = 200
              /\ documentStatus' = "completed"
              /\ documentFile'.signedFilePath # NullValue
  ]_vars

\* C12 witness: a finalize refused for the one unfilled field of two required
\* ones, with the Document left as it was.
FinalizeGateWitness ==
  /\ response.op = "finalize" /\ response.status = 400 /\ response.count = 1
  /\ Cardinality(RequiredFields(fields)) = 2
  /\ Cardinality(ValuedRequiredFields(fields)) = 1
  /\ documentStatus # "completed"
  /\ documentFile.signedFilePath = NullValue

\* The fields a renderer draws: those with a value, as (id, value) pairs.
ValuedFields(fs) ==
  {<<fs[i].id, fs[i].value>> : i \in {j \in 1..Len(fs) : ~Falsy(fs[j].value)}}

\* The fields drawn into a PDF, as (id, content) pairs.
DrawnFields(pdf) ==
  {<<pdf.drawn[i].field, pdf.drawn[i].content>> : i \in 1..Len(pdf.drawn)}

\* C13: finalize works on one snapshot of the fields.  When the renderer
\* writes the artifact, the text fields drawn into it are exactly the valued
\* fields of the list the gate evaluated, and the list the renderer read has
\* no required field without a value.
FinalizeOneSnapshot ==
  [][FinalizeGenerate =>
       /\ DrawnFields(files'[SignedPath(documentFile)]) = ValuedFields(finalizer.fields)
       /\ UnfilledRequired(fields) = <<>>
  ]_vars

\* The fields whose value is an image payload that does not decode, among
\* the types that embed images.
CorruptFields(fs) ==
  {i \in 1..Len(fs) : /\ fs[i].type \in {"signature", "initials", "witness"}
                      /\ fs[i].value = PngBad
                      /\ fs[i].page <= PageCount}

\* What was drawn into a PDF for one field.
DrawnFor(pdf, id) == SelectSeq(pdf.drawn, LAMBDA op : op.field = id)

\* The finalize call succeeded: completed, artifact written and recorded.
FinalizeSucceeded ==
  /\ response'.op = "finalize" /\ response'.status = 200
  /\ documentStatus' = "completed"
  /\ documentFile'.signedFilePath = SignedPath(documentFile)
  /\ SignedPath(documentFile) \in DOMAIN files'

PreviewFinalizeParity ==
  (/\ response.op = "preview" /\ response.status = 200
   /\ documentFile.signedFilePath \in DOMAIN files)
    => response.body = files[documentFile.signedFilePath]

\* The types finalize is to embed as an image, with a text fallback, and
\* those it is to draw as text.
ImageTypes == {"signature", "initials", "witness", "stamp"}
TextTypes == {"name", "text", "input", "date"}

\* C16: the per-type rendering policy of finalize.  Every field with a value
\* is drawn once according to its type: signature, initials, witness and
\* stamp as an image or as text, name, text, input and date as text holding
\* the value; a checkbox is drawn, as a check glyph, exactly when its value
\* is "checked".
FinalizeRendersEveryType ==
  [][(Finalize("owner") /\ response'.status = 200) =>
       \A i \in 1..Len(fields) :
         LET f == fields[i]
             ops == DrawnFor(files'[SignedPath(documentFile)], f.id)
         IN
         (f.value # NullValue /\ f.page <= PageCount) =>
           /\ f.type \in ImageTypes =>
                Len(ops) = 1 /\ ops[1].draw \in {"image", "text"}
           /\ f.type \in TextTypes =>
                Len(ops) = 1 /\ ops[1].draw = "text" /\ ops[1].content = f.value
           /\ f.type = "checkbox" =>
                IF f.value = "checked"
                  THEN Len(ops) = 1 /\ ops[1].content = "check glyph"
                  ELSE ops = <<>>
  ]_vars

\* C17: the artifact is a new file.  No step changes Document.filePath or the
\* bytes stored at it; a successful finalize writes the rendered bytes at a
\* path other than the original's, records that path on the Document and
\* sets the status to completed; a preview records nothing and leaves the
\* files and the Document as they are.
ArtifactDistinctFromOriginal ==
  [][/\ documentFile'.filePath = documentFile.filePath
     /\ documentFile'.fileName = documentFile.fileName
     /\ files'[documentFile.filePath] = files[documentFile.filePath]
     /\ (Finalize("owner") /\ response'.op = "finalize" /\ response'.status = 200) =>
          /\ documentFile'.signedFilePath # NullValue
          /\ documentFile'.signedFilePath # documentFile.filePath
          /\ documentFile'.signedFilePath \in DOMAIN files'
          /\ files'[documentFile'.signedFilePath] =
               Rendered(files[documentFile.filePath], FinalizeRender(SortByPage(fields)))
          /\ documentStatus' = "completed"
     /\ \A caller \in {"owner", "other"} :
          (Preview(caller) /\ response'.op = "preview") =>
            UNCHANGED <<documentFile, files, documentStatus, fields, signatures>>
  ]_vars

\* C17 witness: a finalized document whose artifact, with a field drawn on
\* it, lies next to the untouched original.
ArtifactWitness ==
  /\ response.op = "finalize" /\ response.status = 200
  /\ documentStatus = "completed"
  /\ documentFile.signedFilePath \in DOMAIN files
  /\ documentFile.signedFilePath # documentFile.filePath
  /\ files[documentFile.signedFilePath].drawn # <<>>
  /\ files[documentFile.filePath] = OriginalPdf

\* C18: fill authorization.  A fill by a caller who is neither the owner of
\* the document nor the field's assignedTo changes no field, creates no
\* Signature record and leaves Document.status alone, and is refused with
\* 403 when the field is required.
FillAuthorization ==
  [][\A caller \in FieldCallers, id \in FieldIds, type \in FillTypes :
       (/\ Fill(caller, id, "Jane", type, Unsent)
        /\ response'.op = "fill"
        /\ FieldAt(fields, id) # 0
        /\ caller # "owner"
        /\ fields[FieldAt(fields, id)].assignedTo # caller) =>
          /\ UNCHANGED <<fields, signatures, documentStatus>>
          /\ fields[FieldAt(fields, id)].required => response'.status = 403
  ]_vars

\* What authoring decides about the fields: which exist, where each lies and
\* whom it is assigned to.
Authored(fs) ==
  [i \in 1..Len(fs) |-> [id |-> fs[i].id, page |-> fs[i].page, x |-> fs[i].x,
                         y |-> fs[i].y, assignedTo |-> fs[i].assignedTo]]

\* A call by someone who is not the owner of the document: a field route
\* called by another user, or the public signing route of a recipient.
CallByNonOwner ==
  \/ \E assignedTo \in {Unsent, Sent("a")} :
        FieldCreate("a", 1, 10, 20, 0, 0, "signature", Unsent, assignedTo)
  \/ \E id \in FieldIds : FieldUpdate("a", id, Sent(30), Unsent, Unsent, Unsent)
  \/ \E id \in FieldIds : FieldDelete("a", id)
  \/ \E id \in FieldIds : LinkField("a", id, <<1, 2>>)
  \/ \E template \in Templates : CreateFromTemplate("a", template)
  \/ \E email \in RecipientEmails :
        SignDocumentByRecipient(DocumentId, email, PngOk, "drawn", 1, 40, 20, 0, 0)

\* C19: fields are authored only by the owner.  No call by a caller who is
\* not the owner, through the field routes or the recipient signing route,
\* adds, removes, moves or re-attributes a field of the document.
FieldsAuthoredByOwnerOnly ==
  [][CallByNonOwner => Authored(fields') = Authored(fields)]_vars

\* C20: a successful fill of a signature or initials field sets the value
\* and status = completed, appends one Signature record with status signed
\* at the field's page, position and size, and moves Document.status from
\* draft or pending to partially_signed, leaving any other status as it is.
FillOfSignatureField ==
  [][\A caller \in FieldCallers, id \in FieldIds, type \in FillTypes :
       (/\ Fill(caller, id, "Jane", type, Unsent)
        /\ response'.op = "fill" /\ response'.status = 200
        /\ fields[FieldAt(fields, id)].type \in {"signature", "initials"}) =>
          LET i == FieldAt(fields, id)
              field == fields'[i]
          IN
          /\ field.value = "Jane" /\ field.status = "completed"
          /\ Len(signatures') = Len(signatures) + 1
          /\ LET sig == signatures'[Len(signatures')] IN
             /\ sig.status = "signed" /\ sig.signer = caller
             /\ sig.page = field.page /\ sig.x = field.x /\ sig.y = field.y
             /\ sig.width = field.width /\ sig.height = field.height
          /\ documentStatus' = IF documentStatus \in {"draft", "pending"}
                                 THEN "partially_signed" ELSE documentStatus
  ]_vars

(* --------------------------- recipient routes -------------------------- *)

\* The documents a public link can name: the uploaded one and none.
DocumentIds == {DocumentId, "missing"}

\* allSigners.every(s => s.status === 'signed'), over role = signer
Signers(rs) == SelectSeq(rs, LAMBDA r : r.role = "signer")

\* The Document status updateRecipientStatus writes.
AfterRecipientUpdate(status, rs) ==
  IF AllRecipientsSigned(Signers(rs)) THEN "completed"
  ELSE IF \E i \in 1..Len(Signers(rs)) : Signers(rs)[i].status = "signed"
    THEN "partially_signed"
    ELSE status

\* updateRecipientStatus: a route without authentication
UpdateRecipientStatus(recipientId, status) ==
  /\ IF recipientId \notin 1..Len(recipients)
       THEN /\ response' = FieldReply("recipientStatus", 404, "Recipient not found", 0, NoBody)
            /\ UNCHANGED <<recipients, documentStatus>>
       ELSE LET updated == [recipients EXCEPT ![recipientId].status = status] IN
            /\ recipients' = updated
            /\ documentStatus' = AfterRecipientUpdate(documentStatus, updated)
            /\ response' = FieldReply("recipientStatus", 200, "ok", 0, NoBody)
  /\ UNCHANGED <<users, signatures, fields, createdFields, documentFile, files,
                 finalizer>>
  /\ UNCHANGED <<requestVars, canvas>>

\* getPublicDocumentSigning: the resolve step of a recipient link
GetPublicDocumentSigning(documentId, email) ==
  /\ IF documentId # DocumentId
       THEN response' = FieldReply("recipientResolve", 404, "Document not found", 0, NoBody)
       ELSE IF RecipientAt(recipients, Lowercase(email)) = 0
         THEN response' = FieldReply("recipientResolve", 404,
                "Document not found or you do not have permission to access it", 0, NoBody)
         ELSE response' = FieldReply("recipientResolve", 200, "ok", 0, NoBody)
  /\ UNCHANGED <<documentStatus, users, signatures>>
  /\ UNCHANGED fieldVars
  /\ UNCHANGED <<requestVars, canvas>>

\* The recipient workflow: the owner adds recipients, who resolve their link
\* and sign; anyone can call the status route.
RecipientRoles == {"signer", "witness"}
RecipientStatuses == {"pending", "signed"}
LinkEmails == {"a", "A", "b", "c"}
RecipientIds == 1..(MaxRecipients + 1)

NextRecipients ==
  \/ \E caller \in {"owner", "other"}, email \in {"a", "b"}, role \in RecipientRoles :
        AddDocumentRecipients(caller, email, role)
  \/ \E documentId \in DocumentIds, email \in LinkEmails :
        GetPublicDocumentSigning(documentId, email)
  \/ \E documentId \in DocumentIds, email \in LinkEmails \ {"A"} :
        SignDocumentByRecipient(documentId, email, PngOk, "drawn", 1, 40, 20, 0, 0)
  \/ \E id \in RecipientIds, status \in RecipientStatuses :
        UpdateRecipientStatus(id, status)

SpecRecipients == InitFields /\ [][NextRecipients]_vars

(* --------------------------- recipient claims -------------------------- *)

\* C21: recipient signing is one-shot.  No step takes a recipient whose
\* status is not pending back to pending, and a sign call for a recipient
\* whose status is not pending is refused as a conflict and changes neither
\* the recipients, the Signature records, the fields nor the Document.
RecipientSigningOneShot ==
  [][/\ \A i \in 1..Len(recipients) :
          recipients[i].status # "pending" => recipients'[i].status # "pending"
     /\ \A email \in LinkEmails :
          LET r == RecipientAt(recipients, Lowercase(email)) IN
          (/\ SignDocumentByRecipient(DocumentId, email, PngOk, "drawn", 1, 40, 20, 0, 0)
           /\ r # 0 /\ recipients[r].status # "pending") =>
             /\ response'.status \in {400, 409}
             /\ UNCHANGED <<recipients, signatures, fields, documentStatus, users>>
  ]_vars

\* The recipients with role = signer, by position.
SignerRecipients(rs) == {i \in 1..Len(rs) : rs[i].role = "signer"}

\* C22: after a successful recipient sign the Document status follows the
\* recipients with role = signer only: completed when each of them has
\* signed, else partially_signed when at least one has; the witnesses'
\* statuses play no part.
RecipientSignRecomputesStatus ==
  [][\A email \in LinkEmails :
       (/\ SignDocumentByRecipient(DocumentId, email, PngOk, "drawn", 1, 40, 20, 0, 0)
        /\ response'.status = 200) =>
          LET signers == SignerRecipients(recipients') IN
          IF \A i \in signers : recipients'[i].status = "signed"
            THEN documentStatus' = "completed"
            ELSE (\E i \in signers : recipients'[i].status = "signed")
                    => documentStatus' = "partially_signed"
  ]_vars

\* C23: resolving or signing with an email that matches no recipient is
\* refused with 403 whether or not the document exists, with the same
\* response in both cases; an email that differs from a recipient's only in
\* case resolves.
RecipientLookupDisclosesNothing ==
  [][/\ \A documentId \in DocumentIds, email \in LinkEmails :
          (/\ RecipientAt(recipients, Lowercase(email)) = 0
           /\ \/ GetPublicDocumentSigning(documentId, email)
              \/ SignDocumentByRecipient(documentId, email, PngOk, "drawn", 1, 40, 20, 0, 0)) =>
             /\ response'.status = 403
             /\ response'.error = "You are not authorized to sign this document"
     /\ \A email \in LinkEmails :
          (/\ RecipientAt(recipients, Lowercase(email)) # 0
           /\ GetPublicDocumentSigning(DocumentId, email)) => response'.status = 200
  ]_vars

\* C24: completion is absorbing.  Once Document.status is completed, no
\* recipient sign and no recipient status update changes it.
CompletedDocumentStays ==
  [][documentStatus = "completed" => documentStatus' = "completed"]_vars


(* ------------------------- the signing page ---------------------------- *)

\* Bounds of the signing page: the fields placed on it, and how far right
\* a field is dragged, in pixels.
MaxPlaced == 1
MaxCoord == 100

\* SignDocument.tsx, FIELD_TYPES: the size of a new field of a tool, in
\* display pixels.
FieldConfig(tool) ==
  IF tool = "signature" THEN [width |-> Px(200), height |-> Px(60)]
  ELSE IF tool = "checkbox" THEN [width |-> Px(30), height |-> Px(30)]
  ELSE [width |-> Px(200), height |-> Px(40)]

\* A length that treats every zoom as 1: display values stored as they are.
DocumentSpaceUnscaled(v, scale) == v

\* handlePageClick, handleGlobalMouseMove: v / scale
ToDocumentSpace(v, scale) == (v * 10) \div scale

\* getFieldStyle: v * scale
ToDisplay(v, scale) == (v * scale) \div 10

\* getFieldStyle: left, top, width and height of a field on the page.
GetFieldStyle(field, scale) ==
  [left |-> ToDisplay(field.x, scale), top |-> ToDisplay(field.y, scale),
   width |-> ToDisplay(field.width, scale),
   height |-> ToDisplay(field.height, scale)]

Abs(v) == IF v < 0 THEN 0 - v ELSE v
Max0(v) == IF v < 0 THEN 0 ELSE v

\* The zoom select: setScale.
SetScale(scale) ==
  /\ scale # canvas.scale
  /\ canvas' = [canvas EXCEPT !.scale = scale]
  /\ UNCHANGED <<documentStatus, users, signatures, response, fields,
                 createdFields, recipients, documentFile, files, finalizer>>
  /\ UNCHANGED requestVars

\* handlePageClick with a tool selected, by the owner: the click, relative
\* to the page container, becomes a new field; the field query is refetched.
HandlePageClick(tool, clientX, clientY) ==
  /\ createdFields < MaxPlaced
  /\ FieldCreate("owner", 1,
                 ToDocumentSpace(clientX, canvas.scale),
                 ToDocumentSpace(clientY, canvas.scale),
                 ToDocumentSpace(FieldConfig(tool).width, canvas.scale),
                 ToDocumentSpace(FieldConfig(tool).height, canvas.scale),
                 tool, Sent(TRUE), Sent("me"))
  /\ canvas' = [canvas EXCEPT !.fields = fields']

\* handleMouseDown on a field of the page.
HandleMouseDown(fieldId, clientX, clientY) ==
  /\ FieldAt(canvas.fields, fieldId) # 0
  /\ canvas' = [canvas EXCEPT !.isDragging = fieldId,
                              !.dragStart = [x |-> clientX, y |-> clientY]]
  /\ UNCHANGED <<documentStatus, users, signatures, response, fields,
                 createdFields, recipients, documentFile, files, finalizer>>
  /\ UNCHANGED requestVars

\* handleGlobalMouseMove: moves shorter than 3 pixels are ignored; the page's
\* copy of the field moves at once, the update of the stored field waits for
\* the debounce timer.
HandleGlobalMouseMove(clientX, clientY) ==
  /\ canvas.isDragging # NoDrag
  /\ LET i == FieldAt(canvas.fields, canvas.isDragging)
         scaledDeltaX == ToDocumentSpace(clientX - canvas.dragStart.x, canvas.scale)
         scaledDeltaY == ToDocumentSpace(clientY - canvas.dragStart.y, canvas.scale)
     IN
     IF \/ /\ Abs(clientX - canvas.dragStart.x) < Px(3)
           /\ Abs(clientY - canvas.dragStart.y) < Px(3)
        \/ i = 0
       THEN UNCHANGED canvas
       ELSE LET newX == Max0(canvas.fields[i].x + scaledDeltaX)
                newY == Max0(canvas.fields[i].y + scaledDeltaY)
            IN
            /\ newX <= Px(MaxCoord)
            /\ canvas' = [canvas EXCEPT
                 !.fields[i] = [@ EXCEPT !.x = newX, !.y = newY],
                 !.dragStart = [x |-> clientX, y |-> clientY],
                 !.dragTimeout = [id |-> canvas.isDragging, x |-> newX, y |-> newY]]
  /\ UNCHANGED <<documentStatus, users, signatures, response, fields,
                 createdFields, recipients, documentFile, files, finalizer>>
  /\ UNCHANGED requestVars

\* handleGlobalMouseUp: the drag ends, a pending timer is cleared.
HandleGlobalMouseUp ==
  /\ canvas.isDragging # NoDrag
  /\ canvas' = [canvas EXCEPT !.isDragging = NoDrag, !.dragTimeout = NoTimeout]
  /\ UNCHANGED <<documentStatus, users, signatures, response, fields,
                 createdFields, recipients, documentFile, files, finalizer>>
  /\ UNCHANGED requestVars

\* The debounce timer of a move fires: updateFieldMutation sends the new
\* position, and the field query is refetched.
DragTimeout ==
  /\ canvas.dragTimeout # NoTimeout
  /\ FieldUpdate("owner", canvas.dragTimeout.id, Sent(canvas.dragTimeout.x),
                 Sent(canvas.dragTimeout.y), Unsent, Unsent)
  /\ canvas' = [canvas EXCEPT !.fields = fields', !.dragTimeout = NoTimeout]

\* The cleanup of the drag effect, run when the page renders again after a
\* move or a zoom, before the timer has fired: the timer is cleared.
DragEffectCleanup ==
  /\ canvas.dragTimeout # NoTimeout
  /\ canvas' = [canvas EXCEPT !.dragTimeout = NoTimeout]
  /\ UNCHANGED <<documentStatus, users, signatures, response, fields,
                 createdFields, recipients, documentFile, files, finalizer>>
  /\ UNCHANGED requestVars

\* The owner on the signing page: places signature fields at one point and
\* drags them along its row.
Tools == {"signature"}
ClickPoints == {[x |-> Px(120), y |-> Px(60)]}
MousePoints == {[x |-> Px(0), y |-> Px(60)], [x |-> Px(120), y |-> Px(60)]}

NextCanvas ==
  \/ \E scale \in Scales : SetScale(scale)
  \/ \E tool \in Tools, p \in ClickPoints : HandlePageClick(tool, p.x, p.y)
  \/ \E id \in FieldIds, p \in MousePoints : HandleMouseDown(id, p.x, p.y)
  \/ \E p \in MousePoints : HandleGlobalMouseMove(p.x, p.y)
  \/ HandleGlobalMouseUp
  \/ DragTimeout
  \/ DragEffectCleanup

SpecCanvas == InitFields /\ [][NextCanvas]_vars

\* C25: coordinate round trip and zoom invariance.  For every zoom of the
\* select, converting the stored position and size of a field to display
\* space and back yields the stored values; a zoom change leaves the stored
\* fields and the page's copy as they are; a field created by a click is
\* stored so that, at the zoom of the click, it is displayed at the clicked
\* point with the tool's size; a move by a mouse delta displaces the displayed
\* field by that delta (or stops at 0), at whatever zoom the field was placed;
\* and the update sent after a move stores the position the page shows.
StoredAndShown == {fields[i] : i \in 1..Len(fields)}
                    \cup {canvas.fields[i] : i \in 1..Len(canvas.fields)}
RoundTrip(v) == \A scale \in ZoomOptions : ToDocumentSpace(ToDisplay(v, scale), scale) = v
CoordinateRoundTrip ==
  [][/\ \A f \in StoredAndShown :
          RoundTrip(f.x) /\ RoundTrip(f.y) /\ RoundTrip(f.width) /\ RoundTrip(f.height)
     /\ canvas'.scale # canvas.scale =>
          fields' = fields /\ canvas'.fields = canvas.fields
     /\ \A tool \in Tools, p \in ClickPoints :
          HandlePageClick(tool, p.x, p.y) =>
            /\ Len(fields') = Len(fields) + 1
            /\ GetFieldStyle(fields'[Len(fields')], canvas.scale) =
                 [left |-> p.x, top |-> p.y, width |-> FieldConfig(tool).width,
                  height |-> FieldConfig(tool).height]
     /\ \A p \in MousePoints :
          (HandleGlobalMouseMove(p.x, p.y) /\ canvas' # canvas) =>
            LET i == FieldAt(canvas.fields, canvas.isDragging)
                before == GetFieldStyle(canvas.fields[i], canvas.scale)
                after == GetFieldStyle(canvas'.fields[i], canvas.scale)
            IN /\ after.left = Max0(before.left + p.x - canvas.dragStart.x)
               /\ after.top = Max0(before.top + p.y - canvas.dragStart.y)
               /\ fields' = fields
     /\ DragTimeout =>
          LET i == FieldAt(fields', canvas.dragTimeout.id) IN
          /\ fields'[i].x = canvas.dragTimeout.x
          /\ fields'[i].y = canvas.dragTimeout.y
          /\ canvas'.fields = fields'
    ]_vars

\* A field placed at one zoom, moved and stored at another.
CoordinateWitness ==
  /\ response.op = "update" /\ response.status = 200
  /\ Len(fields) = 1
  /\ fields[1].x # 0
  /\ fields[1].width \notin {FieldConfig(t).width : t \in Tools}
  /\ ToDocumentSpace(FieldConfig(fields[1].type).width, canvas.scale) # fields[1].width

(* -------------------------- record invariants -------------------------- *)

\* C26: at most one Signature record per signer of the document.  In every
\* reachable state no two records of the Signature collection have the same
\* signer: a fill of a signature field by an identity that already has a
\* record updates that record instead of creating a second one.
OneSignaturePerSigner ==
  \A i, j \in 1..Len(signatures) :
     signatures[i].signer = signatures[j].signer => i = j

\* C27: the SignatureField record invariant.  In every reachable state a
\* field with required = true and status = completed has a value that is
\* neither null nor empty, and the status of every field is one of pending,
\* completed and optional.
FieldStatuses == {"pending", "completed", "optional"}
FieldRecordInvariant ==
  \A i \in 1..Len(fields) :
     /\ fields[i].status \in FieldStatuses
     /\ (fields[i].required /\ fields[i].status = "completed") => ~Falsy(fields[i].value)

\* C28: every field lies on a page of its document.  In every reachable
\* state the page of each field is within 1..PageCount: no create, link
\* across pages or creation from a template stores a field on a page the
\* document does not have, which finalize would skip.
FieldPagesWithinDocument ==
  \A i \in 1..Len(fields) : fields[i].page \in 1..PageCount

(* ------------------------ sequential requests -------------------------- *)

\* The number of signers of a request whose status is signed.
SignedCount(req) == Cardinality({i \in 1..Len(req.signers) : req.signers[i].status = "signed"})

\* C29: the sequential prefix invariant.  In every reachable state of a
\* sequential request currentSignerIndex lies in 0..number of signers, every
\* signer before it has status signed, every signer after it has status
\* pending, and it equals the number of signers with status signed.
SequentialPrefixInvariant ==
  \A token \in DOMAIN signingRequests :
     LET req == signingRequests[token] IN
     req.signingOrder = "sequential" =>
       /\ req.currentSignerIndex \in 0..Len(req.signers)
       /\ \A i \in 1..Len(req.signers) :
            /\ i - 1 < req.currentSignerIndex => req.signers[i].status = "signed"
            /\ i - 1 > req.currentSignerIndex => req.signers[i].status = "pending"
       /\ req.currentSignerIndex = SignedCount(req)

\* C30: sequential progress.  No reachable state holds a sequential request
\* that is neither completed, cancelled nor expired and that no signer can
\* act on: while the request is pending or in progress, signByToken admits
\* some email, so the signer whose turn it is can sign and the request can
\* go on to completed.  This holds for every list create accepts, lists
\* that name one email twice included.
SequentialNeverStuck ==
  \A token \in DOMAIN signingRequests :
     LET req == signingRequests[token] IN
     (req.signingOrder = "sequential" /\ req.status \in {"pending", "in_progress"}) =>
        \E email \in RawEmails : SignByTokenError(token, email) = "ok"


==============================================================================
